---- MODULE Spec2Model ----
(***************************************************************************)
(* Warranty ledger and claim workflow of server.js.                        *)
(*                                                                         *)
(* The store is the two MongoDB collections the handlers touch:            *)
(*   warranties : _id -> Warranty document (fields of WarrantySchema)      *)
(*   claims     : sequence of Claim documents, the _id being the index     *)
(* events is the bag of io.emit calls, resp the last HTTP response sent.   *)
(*                                                                         *)
(* Spec        every request handler runs to completion (one action each). *)
(* SpecGate    warranty creation, approval decisions, Intake and Complete. *)
(* SpecLedger  the warranty write paths with client-chosen bodies.         *)
(* SpecConc    Add Progress Update / Complete split at their awaits, two   *)
(*             requests in flight.                                         *)
(* Further specifications, each with the handlers one group of properties  *)
(* is about, are defined in the sections below.                            *)
(***************************************************************************)
EXTENDS Integers, Sequences, FiniteSets, Bags, TLC

\* ---- bounds of the model ----
MaxWarranties == 2
MaxClaims == 2
MaxUpdates == 2
MaxCost == 1
MaxEvidence == 1
NumClaimIds == 2
NumProcs == 2
MaxSchedule == 2
NumPolicyNumbers == 2

VARIABLES warranties, nextWid, claims, events, resp, now, reqs

vars == <<warranties, nextWid, claims, events, resp, now, reqs>>

WIds == 1..MaxWarranties
CIds == 1..MaxClaims
Procs == 1..NumProcs
\* cost = parseFloat(req.body.cost) || 0 : any number, negative ones included
Costs == {-1} \cup (0..MaxCost)
EvidenceCounts == 0..MaxEvidence
ClaimIdRange == 1..NumClaimIds
\* policyNumber = Math.floor(1000000 + Math.random() * 9000000): the values it may draw
PolicyNumberRange == 1..NumPolicyNumbers

\* ---- Coverage calculator: installmentsPaid derivation (server.js 627-633, 1048-1054) ----
RECURSIVE PaidCount(_)
PaidCount(schedule) ==
    IF schedule = <<>> THEN 0
    ELSE (IF Head(schedule).status = "Paid" THEN 1 ELSE 0) + PaidCount(Tail(schedule))

Min(a, b) == IF a < b THEN a ELSE b
Max(a, b) == IF a > b THEN a ELSE b

DeriveInstallmentsPaid(method, schedule) ==
    IF method = "Installment" THEN Min(3, Max(0, PaidCount(schedule))) ELSE 3

\* a path that is absent from a document, or null
Null == -999

\* ---- Claim documents ----
RECURSIVE SumCosts(_)
SumCosts(updates) ==
    IF updates = <<>> THEN 0 ELSE Head(updates).cost + SumCosts(Tail(updates))

\* new Claim(claimData): claimDate = new Date(), schema defaults for status, totalCost,
\* updates, pickupDate
NewClaim(claimId, warrantyId) ==
    [claimId |-> claimId, warrantyId |-> warrantyId, status |-> "awaiting-intake",
     claimDate |-> now, totalCost |-> 0, updates |-> <<>>, pickupDate |-> <<>>,
     signatures |-> [customerSignature |-> Null, staffSignature |-> Null,
                     managerSignature |-> Null]]

\* variant: totalCost overwritten with the update's cost instead of increased by it
PushUpdateOverwriteTotal(doc, cost, ev) ==
    [doc EXCEPT !.updates = Append(@, [step |-> Len(doc.updates) + 2, date |-> now,
                                       cost |-> cost, evidenceImages |-> ev]),
                !.totalCost = cost]

\* variant: the uploaded evidence images are not stored on the entry
PushUpdateNoEvidence(doc, cost, ev) ==
    [doc EXCEPT !.updates = Append(@, [step |-> Len(doc.updates) + 2, date |-> now,
                                       cost |-> cost, evidenceImages |-> 0]),
                !.totalCost = @ + cost]

\* claim.updates.push({step: nextStep, cost, evidenceImages}); claim.totalCost += cost
PushUpdate(doc, cost, ev) ==
    [doc EXCEPT !.updates = Append(@, [step |-> Len(doc.updates) + 2, date |-> now,
                                       cost |-> cost, evidenceImages |-> ev]),
                !.totalCost = @ + cost]

\* variant: the evidence rule applied only above a cost of 1
EvidenceMissingAboveOne(cost, ev) == cost > 1 /\ ev = 0

\* the evidence rule of Add Progress Update
EvidenceMissing(cost, ev) == cost > 0 /\ ev = 0

\* variant: completion that does not stamp pickupDate
PushCompletionNoPickup(doc, t) ==
    [doc EXCEPT !.status = "device-received",
                !.updates = Append(@, [step |-> Len(doc.updates) + 2, date |-> t,
                                       cost |-> 0, evidenceImages |-> 0])]

\* variant: completion that numbers its entry from the number of entries plus one
PushCompletionStepFromOne(doc, t) ==
    [doc EXCEPT !.status = "device-received",
                !.pickupDate = <<t>>,
                !.updates = Append(@, [step |-> Len(doc.updates) + 1, date |-> t,
                                       cost |-> 0, evidenceImages |-> 0])]

\* variant: the completion without the pickup date
PushCompletionNoPickupDate(doc, t) ==
    [doc EXCEPT !.status = "device-received",
                !.updates = Append(@, [step |-> Len(doc.updates) + 2, date |-> t,
                                       cost |-> 0, evidenceImages |-> 0])]

\* the completion mutation: status, pickupDate and the final update entry
PushCompletion(doc, t) ==
    [doc EXCEPT !.status = "device-received",
                !.pickupDate = <<t>>,
                !.updates = Append(@, [step |-> Len(doc.updates) + 2, date |-> t,
                                       cost |-> 0, evidenceImages |-> 0])]

\* claim.save() of a loaded document: Mongoose sends the delta of the document
\* against what was loaded, a $push of the appended array entries and a $set of
\* each scalar path whose value changed; $push does not check the version key.
SaveClaim(stored, orig, doc) ==
    [stored EXCEPT
        !.updates = @ \o SubSeq(doc.updates, Len(orig.updates) + 1, Len(doc.updates)),
        !.totalCost = IF doc.totalCost # orig.totalCost THEN doc.totalCost ELSE @,
        !.status = IF doc.status # orig.status THEN doc.status ELSE @,
        !.pickupDate = IF doc.pickupDate # orig.pickupDate THEN doc.pickupDate ELSE @]

\* Claim.aggregate([{$match: {warrantyId}}, {$group: {totalUsed: {$sum: '$totalCost'}}}])
RECURSIVE SumTotalCost(_, _)
SumTotalCost(cl, wid) ==
    IF cl = <<>> THEN 0
    ELSE (IF Head(cl).warrantyId = wid THEN Head(cl).totalCost ELSE 0)
         + SumTotalCost(Tail(cl), wid)

\* variant: only the updated claim's totalCost is counted
TotalUsedThisClaim(cl, doc) == doc.totalCost

TotalUsed(cl, doc) == SumTotalCost(cl, doc.warrantyId)

\* variant: the write reaches every warranty
SetUsedCoverageEverywhere(ws, wid, totalUsed) ==
    [w \in DOMAIN ws |-> [ws[w] EXCEPT !.usedCoverage = totalUsed]]

\* Warranty.findByIdAndUpdate(id, {usedCoverage: totalUsed}); no document, no write
SetUsedCoverage(ws, wid, totalUsed) ==
    IF wid \in DOMAIN ws THEN [ws EXCEPT ![wid].usedCoverage = totalUsed] ELSE ws

\* Warranty.findByIdAndUpdate(id, {claimStatus: s})
SetClaimStatus(ws, wid, s) ==
    IF wid \in DOMAIN ws THEN [ws EXCEPT ![wid].claimStatus = s] ELSE ws

\* variant: the event payload without the claim's warrantyId
ClaimEventNoWarranty(id, doc) ==
    [name |-> "claimUpdate", claimId |-> doc.claimId, id |-> id, warrantyId |-> 0]

\* io.emit('claimUpdate', {claimId, id, warrantyId})
ClaimEvent(id, doc) ==
    [name |-> "claimUpdate", claimId |-> doc.claimId, id |-> id, warrantyId |-> doc.warrantyId]

ApprovalEvent(wid) ==
    [name |-> "urgent_approval_needed", claimId |-> 0, id |-> 0, warrantyId |-> wid]

IdleReq == [pc |-> "idle", op |-> "none", id |-> 0, cost |-> 0, ev |-> 0,
            orig |-> <<>>, doc |-> <<>>, totalUsed |-> 0]

DoneReq == [IdleReq EXCEPT !.pc = "done"]

\* ---- Initial state: empty collections, server started ----
Init ==
    /\ warranties = <<>>
    /\ nextWid = 1
    /\ claims = <<>>
    /\ events = EmptyBag
    /\ resp = 0
    /\ now = 0
    /\ reqs = [p \in Procs |-> IdleReq]

\* ---- Warranty write paths ----

\* POST /api/warranties: policyNumber drawn until unused,
\* new Warranty({...req.body, policyNumber, approvalStatus: 'pending'}),
\* installmentsPaid recomputed from the payment data, save, approval-needed event
\* the request body of a registration with the device's natural keys
WithDevice(body, serial, imei) == body @@ [serial |-> serial, imei |-> imei]

NewWarranty(body, policyNumber) ==
    [policyNumber |-> policyNumber,
     memberId |-> body.memberId,
     serial |-> body.serial,
     imei |-> body.imei,
     devicePrice |-> IF "devicePrice" \in DOMAIN body THEN body.devicePrice ELSE Null,
     deviceValue |-> IF "deviceValue" \in DOMAIN body THEN body.deviceValue ELSE Null,
     installmentsPaid |-> DeriveInstallmentsPaid(body.method, body.schedule),
     usedCoverage |-> body.usedCoverage,
     method |-> body.method,
     schedule |-> body.schedule,
     paymentStatus |-> "Pending",
     approvalStatus |-> "pending",
     claimStatus |-> "normal"]

PolicyNumberTaken(policyNumber) ==
    \E wid \in DOMAIN warranties : warranties[wid].policyNumber = policyNumber

\* Warranty.findOne({'device.serial': device.serial})
SerialTaken(serial) ==
    \E wid \in DOMAIN warranties : warranties[wid].serial = serial

\* a registration of a device that no stored warranty names yet
FreshDevice(body) == WithDevice(body, nextWid, nextWid)

CreateWarranty(body) ==
    /\ nextWid <= MaxWarranties
    /\ \E policyNumber \in PolicyNumberRange : ~PolicyNumberTaken(policyNumber)
    /\ IF SerialTaken(body.serial)
       THEN /\ resp' = 400
            /\ UNCHANGED <<warranties, nextWid, events>>
       ELSE /\ \E policyNumber \in PolicyNumberRange :
                  /\ ~PolicyNumberTaken(policyNumber)
                  /\ warranties' = warranties @@ (nextWid :> NewWarranty(body, policyNumber))
            /\ nextWid' = nextWid + 1
            /\ events' = events (+) SetToBag({ApprovalEvent(nextWid)})
            /\ resp' = 201
    /\ UNCHANGED <<claims, now, reqs>>

\* PUT /api/warranties/:id/approve
Approve(wid) ==
    /\ IF wid \in DOMAIN warranties
       THEN /\ warranties' = [warranties EXCEPT ![wid].approvalStatus = "approved"]
            /\ resp' = 200
       ELSE /\ resp' = 404
            /\ UNCHANGED warranties
    /\ UNCHANGED <<nextWid, claims, events, now, reqs>>

\* PUT /api/warranties/:id/reject
Reject(wid) ==
    /\ IF wid \in DOMAIN warranties
       THEN /\ warranties' = [warranties EXCEPT ![wid].approvalStatus = "rejected"]
            /\ resp' = 200
       ELSE /\ resp' = 404
            /\ UNCHANGED warranties
    /\ UNCHANGED <<nextWid, claims, events, now, reqs>>

\* const { memberId, ...updateData } = req.body: the top-level memberId is dropped
StripMemberId(body) == [f \in DOMAIN body \ {"memberId"} |-> body[f]]

\* the fields of the body's $set operator, if it has one
SetFields(updateData) ==
    IF "$set" \in DOMAIN updateData THEN updateData["$set"] ELSE <<>>

\* PUT /api/warranties/:id: findByIdAndUpdate(id, updateData) with updateData the
\* request body without memberId.  Mongoose sends the top-level fields of the
\* update as a $set and honours an update operator the body carries itself.
ApplyUpdateData(w, updateData) ==
    [f \in DOMAIN w |-> IF f \in DOMAIN updateData THEN updateData[f]
                        ELSE IF f \in DOMAIN SetFields(updateData) THEN SetFields(updateData)[f]
                        ELSE w[f]]

\* the unique index on policyNumber: another document holds the updated one's number
DuplicatePolicyNumber(ws, wid, updated) ==
    \E other \in DOMAIN ws \ {wid} : ws[other].policyNumber = updated.policyNumber

UpdateWarranty(wid, updateData) ==
    /\ IF wid \notin DOMAIN warranties
       THEN /\ resp' = 404
            /\ UNCHANGED warranties
       ELSE IF DuplicatePolicyNumber(warranties, wid, ApplyUpdateData(warranties[wid], updateData))
       THEN /\ resp' = 400
            /\ UNCHANGED warranties
       ELSE /\ warranties' = [warranties EXCEPT ![wid] = ApplyUpdateData(@, updateData)]
            /\ resp' = 200
    /\ UNCHANGED <<nextWid, claims, events, now, reqs>>

\* PATCH /api/warranties/:id/payment: the three branches on the schedule
PayAll(schedule) ==
    [i \in 1..Len(schedule) |-> [schedule[i] EXCEPT !.status = "Paid"]]

\* schedule.find(s => s.installmentNo === installmentNo): the first match is paid
PayOne(schedule, installmentNo) ==
    LET hits == {i \in 1..Len(schedule) : schedule[i].installmentNo = installmentNo}
    IN IF hits = {} THEN schedule
       ELSE LET first == CHOOSE i \in hits : \A j \in hits : i <= j
            IN [schedule EXCEPT ![first].status = "Paid"]

AllPaid(schedule) == \A i \in 1..Len(schedule) : schedule[i].status = "Paid"

ApplyPayment(w, installmentNo, payAllRemaining) ==
    IF payAllRemaining
    THEN [w EXCEPT !.paymentStatus = "Paid", !.schedule = PayAll(@)]
    ELSE IF installmentNo # 0
    THEN LET sched == PayOne(w.schedule, installmentNo)
         IN [w EXCEPT !.schedule = sched,
                      !.paymentStatus = IF AllPaid(sched) THEN "Paid" ELSE @]
    ELSE [w EXCEPT !.paymentStatus = "Paid"]

\* save, then installmentsPaid recomputed from the stored payment data and saved again
PaymentUpdate(wid, installmentNo, payAllRemaining) ==
    /\ IF wid \in DOMAIN warranties
       THEN LET paid == ApplyPayment(warranties[wid], installmentNo, payAllRemaining)
            IN /\ warranties' = [warranties EXCEPT ![wid] =
                      [paid EXCEPT !.installmentsPaid =
                           DeriveInstallmentsPaid(paid.method, paid.schedule)]]
               /\ resp' = 200
       ELSE /\ resp' = 404
            /\ UNCHANGED warranties
    /\ UNCHANGED <<nextWid, claims, events, now, reqs>>

\* ---- Claim workflow, each handler run to completion ----

ClaimIdTaken(cid) == \E i \in 1..Len(claims) : claims[i].claimId = cid

\* POST /api/claims: claimId drawn until unused, claim saved, warranty marked
\* pending; statusFails: the write of the warranty's claimStatus throws, which
\* ends in the handler's catch after the claim was saved
IntakeWith(wid, cid, statusFails) ==
    /\ Len(claims) < MaxClaims
    /\ ~ClaimIdTaken(cid)
    /\ claims' = Append(claims, NewClaim(cid, wid))
    /\ IF statusFails
       THEN /\ resp' = 400
            /\ UNCHANGED warranties
       ELSE /\ warranties' = SetClaimStatus(warranties, wid, "pending")
            /\ resp' = 201
    /\ UNCHANGED <<nextWid, events, now, reqs>>

\* the request served without a failure
Intake(wid, cid) == IntakeWith(wid, cid, FALSE)

\* variant: an error of the usedCoverage sync escapes to the handler's outer catch
ReachesResponseSyncUncaught(syncFails, emitFails) == ~syncFails /\ ~emitFails

\* Whether the handler gets as far as res.json: an error thrown by the sync of
\* usedCoverage is caught and logged by the inner try/catch, an error thrown by
\* io.emit is not and ends in the outer catch, res.status(400).
ReachesResponse(syncFails, emitFails) == ~emitFails

\* try { Claim.aggregate; Warranty.findByIdAndUpdate } catch (e) { console.error }:
\* when either await throws, the warranty is left as it was
SyncUsedCoverage(ws, cl, doc, syncFails) ==
    IF doc.warrantyId # 0 /\ ~syncFails
    THEN SetUsedCoverage(ws, doc.warrantyId, TotalUsed(cl, doc))
    ELSE ws

\* variant: a missing claim answered like a validation error
ClaimNotFoundStatusAsValidation == 400

\* if (!claim) return res.status(404)
ClaimNotFoundStatus == 404

\* POST /api/claims/:id/updates; syncFails: the aggregate or the warranty write
\* throws, emitFails: io.emit throws
AddUpdateWith(id, cost, ev, syncFails, emitFails) ==
    IF id \notin 1..Len(claims)
    THEN /\ resp' = ClaimNotFoundStatus
         /\ UNCHANGED <<warranties, nextWid, claims, events, now, reqs>>
    ELSE IF EvidenceMissing(cost, ev)
    THEN /\ resp' = 400
         /\ UNCHANGED <<warranties, nextWid, claims, events, now, reqs>>
    ELSE LET doc == PushUpdate(claims[id], cost, ev)
             saved == [claims EXCEPT ![id] = SaveClaim(claims[id], claims[id], doc)]
         IN /\ Len(claims[id].updates) < MaxUpdates
            /\ claims' = saved
            /\ warranties' = SyncUsedCoverage(warranties, saved, doc, syncFails)
            /\ IF ReachesResponse(syncFails, emitFails)
               THEN /\ events' = events (+) SetToBag({ClaimEvent(id, doc)})
                    /\ resp' = 200
               ELSE /\ resp' = 400
                    /\ UNCHANGED events
            /\ UNCHANGED <<nextWid, now, reqs>>

\* the request served without a failure
AddUpdate(id, cost, ev) == AddUpdateWith(id, cost, ev, FALSE, FALSE)

\* POST /api/claims/:id/complete; statusFails: the write of the warranty's
\* claimStatus throws, emitFails: io.emit throws; neither is caught before the
\* handler's catch
CompleteWith(id, statusFails, emitFails) ==
    IF id \notin 1..Len(claims)
    THEN /\ resp' = ClaimNotFoundStatus
         /\ UNCHANGED <<warranties, nextWid, claims, events, now, reqs>>
    ELSE LET doc == PushCompletion(claims[id], now)
         IN /\ Len(claims[id].updates) < MaxUpdates
            /\ claims' = [claims EXCEPT ![id] = SaveClaim(claims[id], claims[id], doc)]
            /\ warranties' = IF statusFails THEN warranties
                              ELSE SetClaimStatus(warranties, doc.warrantyId, "normal")
            /\ IF ~statusFails /\ ReachesResponse(FALSE, emitFails)
               THEN /\ events' = events (+) SetToBag({ClaimEvent(id, doc)})
                    /\ resp' = 200
               ELSE /\ resp' = 400
                    /\ UNCHANGED events
            /\ UNCHANGED <<nextWid, now, reqs>>

Complete(id) == CompleteWith(id, FALSE, FALSE)

\* request bodies of the workflow specification
WorkflowBodies ==
    {[memberId |-> 1, devicePrice |-> 10, method |-> "Cash", schedule |-> <<>>,
      usedCoverage |-> 0, installmentsPaid |-> 1]}

\* warrantyId of an Intake body: an existing warranty or none at all
IntakeWarrantyIds == {0} \cup DOMAIN warranties

Next ==
    \/ \E body \in WorkflowBodies : CreateWarranty(FreshDevice(body))
    \/ \E wid \in IntakeWarrantyIds, cid \in ClaimIdRange : Intake(wid, cid)
    \/ \E id \in CIds, cost \in Costs, ev \in EvidenceCounts : AddUpdate(id, cost, ev)
    \/ \E id \in CIds : Complete(id)

Spec == Init /\ [][Next]_vars

\* ======================= Properties under Spec =======================

ClaimIds == 1..Len(claims)

\* C1: with every request run to completion, each claim's totalCost equals the
\* sum of the cost fields of its updates entries, in every reachable state.
C1_TotalCostIsSum ==
    \A i \in ClaimIds : claims[i].totalCost = SumCosts(claims[i].updates)

C1_Witness ==
    \E i \in ClaimIds :
        /\ Len(claims[i].updates) = 2
        /\ claims[i].updates[1].cost > 0
        /\ claims[i].status = "device-received"

\* C4: right after an Add Progress Update that ran alone and synced, the owning
\* warranty's usedCoverage is the sum of totalCost over all claims referencing it.
C4_FullRecompute ==
    [][\A id \in CIds, cost \in Costs, ev \in EvidenceCounts :
          (AddUpdate(id, cost, ev) /\ resp' = 200 /\ claims[id].warrantyId \in DOMAIN warranties)
          => warranties'[claims[id].warrantyId].usedCoverage
               = SumTotalCost(claims', claims[id].warrantyId)]_vars

C4_Witness ==
    /\ resp = 200
    /\ \E i, j \in ClaimIds :
          /\ i # j
          /\ claims[i].warrantyId = claims[j].warrantyId
          /\ claims[i].warrantyId \in DOMAIN warranties
          /\ claims[i].totalCost > 0
          /\ claims[j].totalCost > 0
          /\ warranties[claims[i].warrantyId].usedCoverage
               = claims[i].totalCost + claims[j].totalCost

\* C5: an Add Progress Update with cost > 0 and no evidence image is answered
\* with an error and leaves claims, warranties and emitted events as they were.
C5_RejectedWithoutEvidence ==
    [][\A id \in CIds, cost \in Costs :
          (id \in ClaimIds /\ cost > 0 /\ AddUpdate(id, cost, 0))
          => (resp' = 400 /\ UNCHANGED <<claims, warranties, events>>)]_vars

C5_Witness ==
    /\ resp = 400
    /\ \E i \in ClaimIds : Len(claims[i].updates) = 1

\* C6: every stored update entry with cost > 0 carries at least one evidence
\* image, whether Add Progress Update or Complete appended it.
C6_CostHasEvidence ==
    \A i \in ClaimIds : \A k \in 1..Len(claims[i].updates) :
        claims[i].updates[k].cost > 0 => claims[i].updates[k].evidenceImages >= 1

C6_Witness ==
    \E i \in ClaimIds :
        /\ Len(claims[i].updates) = 2
        /\ claims[i].updates[1].cost > 0
        /\ claims[i].updates[1].evidenceImages >= 1
        /\ claims[i].status = "device-received"

\* C10: a successful Intake creates a claim awaiting intake with totalCost 0 and
\* no updates and marks the warranty pending; a successful Complete marks the
\* claim device-received with a pickupDate, appends one entry of cost 0 and
\* marks the warranty normal.
C10_IntakeThenComplete ==
    [][/\ \A wid \in {0} \cup WIds, cid \in ClaimIdRange :
            Intake(wid, cid)
            => /\ resp' = 201
               /\ Len(claims') = Len(claims) + 1
               /\ claims'[Len(claims')].status = "awaiting-intake"
               /\ claims'[Len(claims')].totalCost = 0
               /\ claims'[Len(claims')].updates = <<>>
               /\ wid \in DOMAIN warranties => warranties'[wid].claimStatus = "pending"
       /\ \A id \in CIds :
            (id \in ClaimIds /\ Complete(id))
            => /\ resp' = 200
               /\ claims'[id].status = "device-received"
               /\ claims'[id].pickupDate # <<>>
               /\ Len(claims'[id].updates) = Len(claims[id].updates) + 1
               /\ SubSeq(claims'[id].updates, 1, Len(claims[id].updates)) = claims[id].updates
               /\ claims'[id].updates[Len(claims'[id].updates)].cost = 0
               /\ claims[id].warrantyId \in DOMAIN warranties
                    => warranties'[claims[id].warrantyId].claimStatus = "normal"]_vars

C10_Witness ==
    \E i \in ClaimIds :
        /\ claims[i].status = "device-received"
        /\ claims[i].pickupDate # <<>>
        /\ Len(claims[i].updates) = 1
        /\ claims[i].warrantyId \in DOMAIN warranties
        /\ warranties[claims[i].warrantyId].claimStatus = "normal"

\* C11: a claim's totalCost never decreases: after every accepted Add Progress
\* Update, whatever cost the client sent (negative numbers included), and after
\* every Complete, totalCost is at least what it was before the request.
C11_TotalCostMonotone ==
    [][\A i \in ClaimIds : claims'[i].totalCost >= claims[i].totalCost]_vars

\* C12: with every request run to completion, the step numbers of a claim's
\* updates are 2, 3, ..., n+1 in storage order: the k-th entry carries step k+1.
C12_StepsSequential ==
    \A i \in ClaimIds : \A k \in 1..Len(claims[i].updates) :
        claims[i].updates[k].step = k + 1

C12_Witness ==
    \E i \in ClaimIds :
        /\ Len(claims[i].updates) = 2
        /\ claims[i].updates[1].step = 2
        /\ claims[i].updates[2].step = 3
        /\ claims[i].status = "awaiting-intake"

\* C14: once a claim is device-received, no later request appends to its
\* updates or changes its totalCost or its pickupDate.
C14_CompletionIsFinal ==
    [][\A i \in ClaimIds :
          claims[i].status = "device-received"
          => /\ claims'[i].updates = claims[i].updates
             /\ claims'[i].totalCost = claims[i].totalCost
             /\ claims'[i].pickupDate = claims[i].pickupDate]_vars

\* ======================= Approval gate and claim status ================
\* Warranty creation, approval decisions, Intake and Complete.

NextGate ==
    \/ \E body \in WorkflowBodies : CreateWarranty(FreshDevice(body))
    \/ \E wid \in WIds : Approve(wid)
    \/ \E wid \in WIds : Reject(wid)
    \/ \E wid \in IntakeWarrantyIds, cid \in ClaimIdRange : Intake(wid, cid)
    \/ \E id \in CIds : Complete(id)

SpecGate == Init /\ [][NextGate]_vars

\* C7: Intake succeeds only against a warranty whose approvalStatus is approved
\* at the moment the claim is created.
C7_IntakeOnlyWhenApproved ==
    [][\A wid \in WIds, cid \in ClaimIdRange :
          (wid \in DOMAIN warranties /\ Intake(wid, cid) /\ resp' = 201)
          => warranties[wid].approvalStatus = "approved"]_vars

HasOpenClaim(wid) ==
    \E i \in ClaimIds : claims[i].warrantyId = wid /\ claims[i].status = "awaiting-intake"

\* C9: a warranty's claimStatus is pending exactly when some claim referencing it
\* is awaiting intake, and normal when none is.
C9_ClaimStatusTracksOpenClaims ==
    \A wid \in DOMAIN warranties :
        /\ warranties[wid].claimStatus = "pending" <=> HasOpenClaim(wid)
        /\ warranties[wid].claimStatus = "normal" <=> ~HasOpenClaim(wid)

\* C15: Approve and Reject are one-shot: once a warranty is approved or rejected,
\* no later Approve or Reject request changes its approvalStatus.
C15_DecisionIsOneShot ==
    [][\A wid \in DOMAIN warranties :
          (warranties[wid].approvalStatus # "pending" /\ (Approve(wid) \/ Reject(wid)))
          => warranties'[wid].approvalStatus = warranties[wid].approvalStatus]_vars

\* ======================= Warranty ledger write paths ====================

Methods == {"Installment", "Cash"}

ScheduleInputs ==
    UNION {{[i \in 1..n |-> [installmentNo |-> i, status |-> st[i]]] :
               st \in [1..n -> {"Pending", "Paid"}]} : n \in 0..MaxSchedule}

\* request bodies of warranty creation: payment data, a client-chosen installmentsPaid
\* and a client-chosen approvalStatus
LedgerBodies ==
    {[memberId |-> 1, devicePrice |-> 10, method |-> m, schedule |-> s, usedCoverage |-> 0,
      installmentsPaid |-> n, approvalStatus |-> "approved"] :
         m \in Methods, s \in ScheduleInputs, n \in {0, 3}}

\* request bodies of the generic update
LedgerUpdates ==
    {[installmentsPaid |-> n] : n \in 0..3}
        \cup {[method |-> m] : m \in Methods}
        \cup {[schedule |-> s] : s \in ScheduleInputs}
        \cup {[approvalStatus |-> "approved"]}

NextLedger ==
    \/ \E body \in LedgerBodies : CreateWarranty(FreshDevice(body))
    \/ \E wid \in WIds, updateData \in LedgerUpdates : UpdateWarranty(wid, updateData)
    \/ \E wid \in WIds, n \in 0..MaxSchedule, all \in BOOLEAN : PaymentUpdate(wid, n, all)

SpecLedger == Init /\ [][NextLedger]_vars

\* C8: in every persisted state of a warranty, installmentsPaid is the value
\* derived from the stored payment data: min(3, number of Paid schedule entries)
\* for the Installment method and 3 otherwise.
C8_InstallmentsPaidDerived ==
    \A wid \in DOMAIN warranties :
        warranties[wid].installmentsPaid =
            IF warranties[wid].method = "Installment"
            THEN Min(3, PaidCount(warranties[wid].schedule))
            ELSE 3

\* C16: a warranty is created with approvalStatus pending whatever the body
\* says, and neither the generic update nor the payment update changes the
\* approvalStatus of a stored warranty.
C16_ApprovalStatusOnlyByDecision ==
    [][\A wid \in DOMAIN warranties' :
          IF wid \in DOMAIN warranties
          THEN warranties'[wid].approvalStatus = warranties[wid].approvalStatus
          ELSE warranties'[wid].approvalStatus = "pending"]_vars

\* ======================= Interleaved claim requests =====================
\* Add Progress Update and Complete split at their awaits: findById, claim.save(),
\* Claim.aggregate, Warranty.findByIdAndUpdate.  Each element of Procs is one
\* request: it arrives (pc "idle"), takes its steps and is answered (pc "done").

UpdLoad(p, id, cost, ev) ==
    /\ reqs[p].pc = "idle"
    /\ IF id \notin ClaimIds
       THEN resp' = 404 /\ reqs' = [reqs EXCEPT ![p] = DoneReq]
       ELSE IF EvidenceMissing(cost, ev)
       THEN resp' = 400 /\ reqs' = [reqs EXCEPT ![p] = DoneReq]
       ELSE /\ Len(claims[id].updates) < MaxUpdates
            /\ reqs' = [reqs EXCEPT ![p] =
                   [pc |-> "save", op |-> "addUpdate", id |-> id, cost |-> cost, ev |-> ev,
                    orig |-> claims[id], doc |-> PushUpdate(claims[id], cost, ev),
                    totalUsed |-> 0]]
            /\ UNCHANGED resp
    /\ UNCHANGED <<warranties, nextWid, claims, events, now>>

UpdSave(p) ==
    /\ reqs[p].pc = "save"
    /\ reqs[p].op = "addUpdate"
    /\ claims' = [claims EXCEPT ![reqs[p].id] = SaveClaim(@, reqs[p].orig, reqs[p].doc)]
    /\ IF reqs[p].doc.warrantyId # 0
       THEN /\ reqs' = [reqs EXCEPT ![p].pc = "aggregate"]
            /\ UNCHANGED <<events, resp>>
       ELSE /\ events' = events (+) SetToBag({ClaimEvent(reqs[p].id, reqs[p].doc)})
            /\ resp' = 200
            /\ reqs' = [reqs EXCEPT ![p] = DoneReq]
    /\ UNCHANGED <<warranties, nextWid, now>>

UpdAggregate(p) ==
    /\ reqs[p].pc = "aggregate"
    /\ reqs' = [reqs EXCEPT ![p].pc = "sync", ![p].totalUsed = TotalUsed(claims, reqs[p].doc)]
    /\ UNCHANGED <<warranties, nextWid, claims, events, resp, now>>

UpdSync(p) ==
    /\ reqs[p].pc = "sync"
    /\ warranties' = SetUsedCoverage(warranties, reqs[p].doc.warrantyId, reqs[p].totalUsed)
    /\ events' = events (+) SetToBag({ClaimEvent(reqs[p].id, reqs[p].doc)})
    /\ resp' = 200
    /\ reqs' = [reqs EXCEPT ![p] = DoneReq]
    /\ UNCHANGED <<nextWid, claims, now>>

CompLoad(p, id) ==
    /\ reqs[p].pc = "idle"
    /\ IF id \notin ClaimIds
       THEN resp' = 404 /\ reqs' = [reqs EXCEPT ![p] = DoneReq]
       ELSE /\ Len(claims[id].updates) < MaxUpdates
            /\ reqs' = [reqs EXCEPT ![p] =
                   [pc |-> "save", op |-> "complete", id |-> id, cost |-> 0, ev |-> 0,
                    orig |-> claims[id], doc |-> PushCompletion(claims[id], now),
                    totalUsed |-> 0]]
            /\ UNCHANGED resp
    /\ UNCHANGED <<warranties, nextWid, claims, events, now>>

CompSave(p) ==
    /\ reqs[p].pc = "save"
    /\ reqs[p].op = "complete"
    /\ claims' = [claims EXCEPT ![reqs[p].id] = SaveClaim(@, reqs[p].orig, reqs[p].doc)]
    /\ reqs' = [reqs EXCEPT ![p].pc = "status"]
    /\ UNCHANGED <<warranties, nextWid, events, resp, now>>

CompSync(p) ==
    /\ reqs[p].pc = "status"
    /\ warranties' = SetClaimStatus(warranties, reqs[p].doc.warrantyId, "normal")
    /\ events' = events (+) SetToBag({ClaimEvent(reqs[p].id, reqs[p].doc)})
    /\ resp' = 200
    /\ reqs' = [reqs EXCEPT ![p] = DoneReq]
    /\ UNCHANGED <<nextWid, claims, now>>

\* One approved warranty with two claims just taken in: the state SpecGate reaches
\* by CreateWarranty, Approve(1), Intake(1, 1), Intake(1, 2).
InitConc ==
    /\ now = 0
    /\ warranties = (1 :> [NewWarranty(WithDevice(CHOOSE b \in WorkflowBodies : TRUE, 1, 1), 1)
                             EXCEPT !.approvalStatus = "approved", !.claimStatus = "pending"])
    /\ nextWid = 2
    /\ claims = <<NewClaim(1, 1), NewClaim(2, 1)>>
    /\ events = SetToBag({ApprovalEvent(1)})
    /\ resp = 201
    /\ reqs = [p \in Procs |-> IdleReq]

NextConc ==
    \/ \E p \in Procs, id \in CIds, cost \in 0..MaxCost, ev \in EvidenceCounts :
            UpdLoad(p, id, cost, ev)
    \/ \E p \in Procs : UpdSave(p)
    \/ \E p \in Procs : UpdAggregate(p)
    \/ \E p \in Procs : UpdSync(p)
    \/ \E p \in Procs, id \in CIds : CompLoad(p, id)
    \/ \E p \in Procs : CompSave(p)
    \/ \E p \in Procs : CompSync(p)

SpecConc == InitConc /\ [][NextConc]_vars

\* no request is between its load and its answer
AllIdle == \A p \in Procs : reqs[p].pc \in {"idle", "done"}

\* The initial state of SpecConc is a state of the run-to-completion handlers.
InitConcReached ==
    /\ warranties = (1 :> [NewWarranty(WithDevice(CHOOSE b \in WorkflowBodies : TRUE, 1, 1), 1)
                             EXCEPT !.approvalStatus = "approved", !.claimStatus = "pending"])
    /\ claims = <<NewClaim(1, 1), NewClaim(2, 1)>>
    /\ events = SetToBag({ApprovalEvent(1)})
    /\ resp = 201

\* C2: when Add Progress Update requests on one claim interleave, no cost
\* increment is lost: once they have persisted, the claim's totalCost equals the
\* sum of the cost fields of all its updates entries.
C2_NoLostIncrement ==
    AllIdle => \A i \in ClaimIds : claims[i].totalCost = SumCosts(claims[i].updates)

\* C3: once every in-flight Add Progress Update has finished its sync, the
\* warranty's usedCoverage equals the sum of totalCost over the claims
\* referencing it, for every interleaving.
C3_UsedCoverageReconciled ==
    AllIdle => \A wid \in DOMAIN warranties :
                   warranties[wid].usedCoverage = SumTotalCost(claims, wid)

\* C13: when two requests appending to the same claim interleave between their
\* load and their save, the persisted updates still carry strictly increasing
\* step numbers, so no two entries of one claim share a step.
C13_StepsStrictlyIncreasing ==
    \A i \in ClaimIds : \A k \in 1..(Len(claims[i].updates) - 1) :
        claims[i].updates[k].step < claims[i].updates[k + 1].step

\* ======================= Coverage calculator and its read paths =========
\* The limits are computed on read: by the virtual getters when a Warranty
\* document is serialised, by the $addFields stages of the warranty aggregation
\* and by the public tracking handler.

\* device prices and used amounts a request body may carry (neither is validated)
DevicePrices == {-10, 0, 10, 90}
UsedCoverages == {0, 100}

RECURSIVE Pow2Above(_, _)
\* the least power of two greater than v, searched upwards from p
Pow2Above(v, p) == IF p > v THEN p ELSE Pow2Above(v, 2 * p)

\* Math.floor(n * 0.70) on an integer n, in IEEE-754 double arithmetic.  The
\* double 0.70 is 0.7 - 0.4 * 2^-53, so the exact product is 7n/10 - 0.4n * 2^-53
\* and is rounded to the nearest double.  When 7n/10 is no integer the rounding
\* cannot cross an integer and the floor is that of 7n/10.  When 7n/10 is an
\* integer v with 2^(j-1) <= v < 2^j, the doubles around v are 2^(j-53) apart
\* and the product rounds to the double below v exactly when 0.4n * 2^-53
\* exceeds 2^(j-54), that is when 8v > 7 * 2^j: the floor is then v - 1
\* (90 * 0.70 = 62.99999999999999, 10500 * 0.70 = 7349.999999999999).  For
\* n < 0 the product rounds towards zero at worst and the floor is unchanged.
FloorTimes070(n) ==
    LET exact == (7 * n) \div 10
    IN IF n > 0 /\ (7 * n) % 10 = 0 /\ 8 * exact > 7 * Pow2Above(exact, 1)
       THEN exact - 1
       ELSE exact

\* Math.floor(m * 0.30) and Math.floor(m * 0.10) on an integer m: the doubles
\* 0.30 and 0.10 are close enough to 3/10 and 1/10 for an integer product to
\* round to itself, so the floor is that of the exact product.
FloorTimes030(m) == (3 * m) \div 10
FloorTimes010(m) == m \div 10

\* Number(devicePrice ?? device?.deviceValue ?? 0)
BasePrice(w) ==
    IF w.devicePrice # Null THEN w.devicePrice
    ELSE IF w.deviceValue # Null THEN w.deviceValue
    ELSE 0

\* WarrantySchema.virtual('maxLimit')
maxLimit(w) == FloorTimes070(BasePrice(w))

\* variant: the tiers of two and of three or more paid installments exchanged
currentLimitTiersSwapped(w) ==
    IF w.installmentsPaid >= 3 THEN FloorTimes030(maxLimit(w))
    ELSE IF w.installmentsPaid = 2 THEN maxLimit(w)
    ELSE FloorTimes010(maxLimit(w))

\* WarrantySchema.virtual('currentLimit'); Math.floor(maxLimit * 1.0) is maxLimit
currentLimit(w) ==
    IF w.installmentsPaid >= 3 THEN maxLimit(w)
    ELSE IF w.installmentsPaid = 2 THEN FloorTimes030(maxLimit(w))
    ELSE FloorTimes010(maxLimit(w))

\* variant: the remaining limit cut off at zero
remainingLimitClamped(w) == Max(0, currentLimit(w) - w.usedCoverage)

\* WarrantySchema.virtual('remainingLimit')
remainingLimit(w) == currentLimit(w) - w.usedCoverage

\* res.json(document): toJSON with virtuals
ToJSON(w) ==
    [devicePrice |-> w.devicePrice, deviceValue |-> w.deviceValue, installmentsPaid |-> w.installmentsPaid,
     usedCoverage |-> w.usedCoverage, maxLimit |-> maxLimit(w),
     currentLimit |-> currentLimit(w), remainingLimit |-> remainingLimit(w)]

\* the $addFields stages of GET /api/warranties: devicePrice by $ifNull from
\* device.deviceValue, installmentsPaid recomputed from the payment data, then
\* maxLimit, currentLimit ($switch) and remainingLimit.  $multiply, $floor and
\* $subtract yield null when an operand is null or missing.
PipelineView(w) ==
    LET price == IF w.devicePrice # Null THEN w.devicePrice ELSE w.deviceValue
        paid == IF w.method = "Installment" THEN Min(3, PaidCount(w.schedule)) ELSE 3
        max == IF price = Null THEN Null ELSE FloorTimes070(price)
        cur == IF max = Null THEN Null
               ELSE IF paid >= 3 THEN max
               ELSE IF paid = 2 THEN FloorTimes030(max)
               ELSE IF paid = 1 THEN FloorTimes010(max)
               ELSE FloorTimes010(max)
    IN [devicePrice |-> price, installmentsPaid |-> paid,
        usedCoverage |-> w.usedCoverage, maxLimit |-> max,
        currentLimit |-> cur,
        remainingLimit |-> IF cur = Null THEN Null ELSE cur - w.usedCoverage]

\* publicData of GET /api/public/track/:claimId: coverageLimit and remainingBalance
\* stay 0 when the claim has no warranty or the warranty is gone.  The stored
\* usedCoverage is a number here, so the fallback to the claims' sum is not taken.
TrackView(ws, doc) ==
    IF doc.warrantyId # 0 /\ doc.warrantyId \in DOMAIN ws
    THEN LET w == ws[doc.warrantyId]
             max == FloorTimes070(BasePrice(w))
             cur == IF w.installmentsPaid >= 3 THEN max
                    ELSE IF w.installmentsPaid = 2 THEN FloorTimes030(max)
                    ELSE FloorTimes010(max)
         IN [claimId |-> doc.claimId, coverageLimit |-> cur,
             remainingBalance |-> cur - w.usedCoverage]
    ELSE [claimId |-> doc.claimId, coverageLimit |-> 0, remainingBalance |-> 0]

\* PUT /api/warranties/:id with its response body: res.json(updated)
UpdateWarrantyJSON(p, wid, updateData) ==
    /\ reqs[p].pc = "idle"
    /\ IF wid \notin DOMAIN warranties
       THEN /\ resp' = 404
            /\ reqs' = [reqs EXCEPT ![p] = DoneReq]
            /\ UNCHANGED warranties
       ELSE LET updated == ApplyUpdateData(warranties[wid], updateData)
            IN IF DuplicatePolicyNumber(warranties, wid, updated)
               THEN /\ resp' = 400
                    /\ reqs' = [reqs EXCEPT ![p] = DoneReq]
                    /\ UNCHANGED warranties
               ELSE /\ warranties' = [warranties EXCEPT ![wid] = updated]
                    /\ reqs' = [reqs EXCEPT ![p] =
                           [DoneReq EXCEPT !.op = "putWarranty", !.id = wid,
                                           !.doc = ToJSON(updated)]]
                    /\ resp' = 200
    /\ UNCHANGED <<nextWid, claims, events, now>>

\* GET /api/warranties: res.json(await Warranty.aggregate(pipeline))
GetWarranties(p) ==
    /\ reqs[p].pc = "idle"
    /\ reqs' = [reqs EXCEPT ![p] =
           [DoneReq EXCEPT !.op = "getWarranties",
                           !.doc = [wid \in DOMAIN warranties |-> PipelineView(warranties[wid])]]]
    /\ resp' = 200
    /\ UNCHANGED <<warranties, nextWid, claims, events, now>>

\* e placed behind every entry of sorted that is at least as new
RECURSIVE InsertByDate(_, _)
InsertByDate(e, sorted) ==
    IF sorted = <<>> THEN <<e>>
    ELSE IF Head(sorted).date >= e.date THEN <<Head(sorted)>> \o InsertByDate(e, Tail(sorted))
    ELSE <<e>> \o sorted

\* updates.sort((a, b) => new Date(b.date) - new Date(a.date)): newest first,
\* entries of one date in their stored order (the sort is stable)
RECURSIVE SortNewestFirst(_)
SortNewestFirst(updates) ==
    IF updates = <<>> THEN <<>>
    ELSE InsertByDate(updates[Len(updates)], SortNewestFirst(SubSeq(updates, 1, Len(updates) - 1)))

\* variant: the document whose updates were sorted is saved
StoredAfterTrackSaved(cl, id) == [cl EXCEPT ![id].updates = SortNewestFirst(@)]

\* the sort reorders the array of the loaded document, which is serialised into
\* the response and never saved
StoredAfterTrack(cl, id) == cl

\* GET /api/public/track/:claimId: Claim.findOne({claimId}), then the limits
Track(p, claimId) ==
    /\ reqs[p].pc = "idle"
    /\ IF ClaimIdTaken(claimId)
       THEN LET id == CHOOSE i \in ClaimIds : claims[i].claimId = claimId
            IN /\ reqs' = [reqs EXCEPT ![p] =
                      [DoneReq EXCEPT !.op = "track", !.id = id,
                                      !.doc = TrackView(warranties, claims[id])
                                                @@ [updates |-> SortNewestFirst(claims[id].updates)]]]
               /\ claims' = StoredAfterTrack(claims, id)
               /\ resp' = 200
       ELSE /\ resp' = 404
            /\ reqs' = [reqs EXCEPT ![p] = DoneReq]
            /\ UNCHANGED claims
    /\ UNCHANGED <<warranties, nextWid, events, now>>

\* the client has read the response: the request is over
Receive(p) ==
    /\ reqs[p].pc = "done"
    /\ reqs' = [reqs EXCEPT ![p] = IdleReq]
    /\ UNCHANGED <<warranties, nextWid, claims, events, resp, now>>

LimitBodies ==
    {[memberId |-> 1, devicePrice |-> d, method |-> "Cash", schedule |-> <<>>,
      usedCoverage |-> 0, installmentsPaid |-> 1] : d \in DevicePrices}

LimitUpdates ==
    {[installmentsPaid |-> n] : n \in 0..3} \cup {[usedCoverage |-> u] : u \in UsedCoverages}

\* every response has been read
AllReceived == \A p \in Procs : reqs[p].pc = "idle"

\* One warranty and one claim under observation, requests sent one at a time: the
\* next request is sent once the previous response has been read.
NextLimits ==
    \/ AllReceived /\ warranties = <<>> /\ \E body \in LimitBodies : CreateWarranty(FreshDevice(body))
    \/ AllReceived /\ \E p \in Procs, wid \in WIds, updateData \in LimitUpdates :
                      UpdateWarrantyJSON(p, wid, updateData)
    \/ AllReceived /\ claims = <<>> /\ \E wid \in IntakeWarrantyIds, cid \in ClaimIdRange :
                                       Intake(wid, cid)
    \/ AllReceived /\ \E p \in Procs : GetWarranties(p)
    \/ AllReceived /\ \E p \in Procs, claimId \in ClaimIdRange : Track(p, claimId)
    \/ \E p \in Procs : Receive(p)

SpecLimits == Init /\ [][NextLimits]_vars

\* C17: for a device price >= 0 and installmentsPaid in 0..3, the currentLimit a
\* warranty is served with does not go down when installmentsPaid goes up, and
\* it never exceeds floor(devicePrice * 70 / 100).
C17_LimitMonotoneAndCapped ==
    [][\A p \in Procs, wid \in DOMAIN warranties :
          (reqs[p].pc = "idle" /\ reqs'[p].op = "putWarranty" /\ reqs'[p].id = wid)
          => LET before == ToJSON(warranties[wid])
                 after == reqs'[p].doc
             IN (/\ after.devicePrice >= 0
                 /\ before.devicePrice = after.devicePrice
                 /\ before.installmentsPaid \in 0..3
                 /\ after.installmentsPaid \in 0..3
                 /\ before.installmentsPaid <= after.installmentsPaid)
                => /\ before.currentLimit <= after.currentLimit
                   /\ after.currentLimit <= (after.devicePrice * 70) \div 100]_vars

C17_Witness ==
    \E p \in Procs :
        /\ reqs[p].op = "putWarranty"
        /\ reqs[p].doc.devicePrice = 10
        /\ reqs[p].doc.installmentsPaid = 3
        /\ reqs[p].doc.currentLimit = 7
        /\ resp = 200

\* C18: every stored warranty satisfies currentLimit <= maxLimit <= devicePrice,
\* for every device price creation accepts, zero and negative ones included.
C18_LimitsOrdered ==
    \A wid \in DOMAIN warranties :
        /\ currentLimit(warranties[wid]) <= maxLimit(warranties[wid])
        /\ maxLimit(warranties[wid]) <= warranties[wid].devicePrice

\* the reference calculation in exact arithmetic
RefMaxLimit(d) == (d * 70) \div 100

RefCurrentLimit(d, paid) ==
    IF paid >= 3 THEN RefMaxLimit(d)
    ELSE IF paid = 2 THEN (RefMaxLimit(d) * 30) \div 100
    ELSE (RefMaxLimit(d) * 10) \div 100

\* C19: the limits served equal the reference: maxLimit = floor(devicePrice * 0.70)
\* and currentLimit = floor of maxLimit times 1.0, 0.30 or 0.10 by installmentsPaid,
\* on the serialised document and on the public tracking view.
C19_LimitsEqualReference ==
    \A p \in Procs :
        /\ reqs[p].op = "putWarranty"
           => /\ reqs[p].doc.maxLimit = RefMaxLimit(reqs[p].doc.devicePrice)
              /\ reqs[p].doc.currentLimit =
                     RefCurrentLimit(reqs[p].doc.devicePrice, reqs[p].doc.installmentsPaid)
        /\ (reqs[p].op = "track" /\ claims[reqs[p].id].warrantyId \in DOMAIN warranties)
           => LET w == warranties[claims[reqs[p].id].warrantyId]
              IN reqs[p].doc.coverageLimit = RefCurrentLimit(w.devicePrice, w.installmentsPaid)

\* C20: on every read path the remaining limit served is currentLimit minus
\* usedCoverage, never cut off at zero: it is negative when usedCoverage exceeds
\* currentLimit.
C20_RemainingNotClamped ==
    \A p \in Procs :
        /\ reqs[p].op = "putWarranty"
           => reqs[p].doc.remainingLimit = reqs[p].doc.currentLimit - reqs[p].doc.usedCoverage
        /\ reqs[p].op = "getWarranties"
           => \A wid \in DOMAIN reqs[p].doc :
                  reqs[p].doc[wid].remainingLimit =
                      reqs[p].doc[wid].currentLimit - reqs[p].doc[wid].usedCoverage
        /\ (reqs[p].op = "track" /\ claims[reqs[p].id].warrantyId \in DOMAIN warranties)
           => reqs[p].doc.remainingBalance =
                  reqs[p].doc.coverageLimit
                      - warranties[claims[reqs[p].id].warrantyId].usedCoverage

C20_Witness ==
    \E p \in Procs :
        /\ reqs[p].op = "putWarranty"
        /\ reqs[p].doc.usedCoverage > reqs[p].doc.currentLimit
        /\ reqs[p].doc.remainingLimit < 0

\* C21: for every stored warranty the three derivations agree: the virtuals
\* (from the stored installmentsPaid), the read aggregation (installmentsPaid
\* re-derived from the payment data) and the public tracking view yield the
\* same currentLimit and remainingLimit.
C21_DerivationsAgree ==
    \A wid \in DOMAIN warranties :
        LET w == warranties[wid]
            agg == PipelineView(w)
            pub == TrackView(warranties, [claimId |-> 1, warrantyId |-> wid])
        IN /\ currentLimit(w) = agg.currentLimit
           /\ remainingLimit(w) = agg.remainingLimit
           /\ currentLimit(w) = pub.coverageLimit
           /\ remainingLimit(w) = pub.remainingBalance

\* ======================= Failures of the sync and of the emit ===========
\* The handlers of Spec with the two calls that may throw after the claim is
\* saved: the usedCoverage sync and io.emit.  One warranty is registered and every
\* claim is taken in against it.

NextFaults ==
    \/ warranties = <<>> /\ \E body \in WorkflowBodies : CreateWarranty(FreshDevice(body))
    \/ \E wid \in DOMAIN warranties, cid \in ClaimIdRange : Intake(wid, cid)
    \/ \E id \in CIds, cost \in 0..MaxCost, ev \in EvidenceCounts, syncFails, emitFails \in BOOLEAN :
           AddUpdateWith(id, cost, ev, syncFails, emitFails)
    \/ \E id \in CIds, emitFails \in BOOLEAN : CompleteWith(id, FALSE, emitFails)

SpecFaults == Init /\ [][NextFaults]_vars

\* C22: when the sync of usedCoverage fails during an Add Progress Update, the
\* appended update and the increased totalCost stay persisted, the claim-updated
\* event is still emitted and the caller receives a success response.
C22_SyncFailureIsNotFatal ==
    [][\A id \in CIds, cost \in 0..MaxCost, ev \in EvidenceCounts :
          (/\ id \in ClaimIds
           /\ ~EvidenceMissing(cost, ev)
           /\ claims[id].warrantyId # 0
           /\ AddUpdateWith(id, cost, ev, TRUE, FALSE))
          => /\ resp' = 200
             /\ Len(claims'[id].updates) = Len(claims[id].updates) + 1
             /\ claims'[id].updates[Len(claims'[id].updates)].cost = cost
             /\ claims'[id].totalCost = claims[id].totalCost + cost
             /\ events' = events (+) SetToBag({[name |-> "claimUpdate",
                                                claimId |-> claims[id].claimId, id |-> id,
                                                warrantyId |-> claims[id].warrantyId]})]_vars

C22_Witness ==
    \E i \in ClaimIds :
        /\ claims[i].warrantyId \in DOMAIN warranties
        /\ claims[i].totalCost > warranties[claims[i].warrantyId].usedCoverage
        /\ Len(claims[i].updates) = 1
        /\ CopiesIn([name |-> "claimUpdate", claimId |-> claims[i].claimId, id |-> i,
                     warrantyId |-> claims[i].warrantyId], events) = 1
        /\ resp = 200

\* C23: when io.emit throws during an Add Progress Update or a Complete, the
\* caller still receives a success response and the persisted claims and
\* warranties are those of the run in which the emit succeeds.
C23_EmitFailureIsNotFatal ==
    [][/\ \A id \in CIds, cost \in 0..MaxCost, ev \in EvidenceCounts :
            (/\ id \in ClaimIds
             /\ ~EvidenceMissing(cost, ev)
             /\ AddUpdateWith(id, cost, ev, FALSE, TRUE))
            => resp' = 200
       /\ \A id \in CIds :
            (id \in ClaimIds /\ CompleteWith(id, FALSE, TRUE)) => resp' = 200]_vars

\* ======================= Notification events ============================

\* the payload a claim-updated event of claim i must carry
ExpectedClaimEvent(i) ==
    [name |-> "claimUpdate", claimId |-> claims[i].claimId, id |-> i,
     warrantyId |-> claims[i].warrantyId]

\* C24: every successful Add Progress Update or Complete emits exactly one
\* claim-updated event with the claim's claimId, id and warrantyId, and only
\* after the claim is persisted; rejected and not-found requests emit none.
\* So a claim never has more events than persisted entries, has as many once
\* no request is in flight, and no other claim-updated event exists.
C24_OneEventAfterSave ==
    /\ \A i \in ClaimIds :
          /\ CopiesIn(ExpectedClaimEvent(i), events) <= Len(claims[i].updates)
          /\ AllIdle => CopiesIn(ExpectedClaimEvent(i), events) = Len(claims[i].updates)
    /\ \A e \in BagToSet(events) :
          e.name = "claimUpdate" => (e.id \in ClaimIds /\ e = ExpectedClaimEvent(e.id))

C24_Witness ==
    /\ AllIdle
    /\ \E p \in Procs : reqs[p].pc = "done"
    /\ \E i \in ClaimIds :
          /\ Len(claims[i].updates) = 2
          /\ claims[i].status = "device-received"
          /\ CopiesIn(ExpectedClaimEvent(i), events) = 2

\* C25: every request that changes a persisted claim emits a claim-updated
\* event of that claim, Intake included, and every creation of a pending
\* warranty emits an approval-needed event.
C25_EventOnEveryClaimChange ==
    [][/\ claims' # claims
          => \E i \in 1..Len(claims') :
                CopiesIn([name |-> "claimUpdate", claimId |-> claims'[i].claimId, id |-> i,
                          warrantyId |-> claims'[i].warrantyId], events')
                  = CopiesIn([name |-> "claimUpdate", claimId |-> claims'[i].claimId, id |-> i,
                              warrantyId |-> claims'[i].warrantyId], events) + 1
       /\ \A wid \in DOMAIN warranties' \ DOMAIN warranties :
             CopiesIn([name |-> "urgent_approval_needed", claimId |-> 0, id |-> 0,
                       warrantyId |-> wid], events') = 1]_vars

\* ======================= Overdue claims =================================
\* Time is counted in half days: now is Date.now(), Tick lets it pass.

MaxNow == 13
\* MS_PER_DAY in units of now
TicksPerDay == 2
OverdueDays == 5

Tick ==
    /\ now < MaxNow
    /\ now' = now + 1
    /\ UNCHANGED <<warranties, nextWid, claims, events, resp, reqs>>

\* lastUpdate.date of the last updates entry, else claimDate
lastUpdateTime(c) ==
    IF Len(c.updates) > 0 THEN c.updates[Len(c.updates)].date ELSE c.claimDate

\* Math.floor((now - lastUpdateTime) / MS_PER_DAY)
daysSinceUpdate(c, t) == (t - lastUpdateTime(c)) \div TicksPerDay

\* variant: overdue only after more than the five days
isOverdueStrict(c, t) == daysSinceUpdate(c, t) > OverdueDays

isOverdue(c, t) == daysSinceUpdate(c, t) >= OverdueDays

\* {...c, isOverdue, daysOverdue: isOverdue ? daysSinceUpdate : 0}
Enriched(c, t) ==
    [claimId |-> c.claimId, isOverdue |-> isOverdue(c, t),
     daysOverdue |-> IF isOverdue(c, t) THEN daysSinceUpdate(c, t) ELSE 0]

\* GET /api/claims/pending: the claims awaiting intake, enriched at query time
GetPendingClaims(p) ==
    /\ reqs[p].pc = "idle"
    /\ reqs' = [reqs EXCEPT ![p] =
           [DoneReq EXCEPT !.op = "pendingClaims",
                           !.doc = [i \in {j \in ClaimIds : claims[j].status = "awaiting-intake"}
                                       |-> Enriched(claims[i], now)]]]
    /\ resp' = 200
    /\ UNCHANGED <<warranties, nextWid, claims, events, now>>

\* One claim under observation, requests sent one at a time.
NextOverdue ==
    \/ AllReceived /\ claims = <<>> /\ \E cid \in ClaimIdRange : Intake(0, cid)
    \/ AllReceived /\ \E id \in CIds : AddUpdate(id, 0, 0)
    \/ AllReceived /\ \E id \in CIds : Complete(id)
    \/ AllReceived /\ Tick
    \/ AllReceived /\ \E p \in Procs : GetPendingClaims(p)
    \/ \E p \in Procs : Receive(p)

SpecOverdue == Init /\ [][NextOverdue]_vars

\* C26: for a claim awaiting intake, with d the whole days elapsed since the
\* date of its last updates entry (since claimDate when it has none), the
\* pending list reports isOverdue exactly when d >= 5 and daysOverdue = d when
\* overdue, 0 otherwise; the query leaves the stored claims as they were.
C26_OverdueAtFiveDays ==
    [][\A p \in Procs :
          (reqs[p].pc = "idle" /\ reqs'[p].op = "pendingClaims")
          => /\ claims' = claims
             /\ DOMAIN reqs'[p].doc = {i \in ClaimIds : claims[i].status = "awaiting-intake"}
             /\ \A i \in DOMAIN reqs'[p].doc :
                   LET last == IF claims[i].updates = <<>> THEN claims[i].claimDate
                               ELSE claims[i].updates[Len(claims[i].updates)].date
                       d == CHOOSE k \in 0..MaxNow :
                                /\ k * TicksPerDay <= now - last
                                /\ now - last < (k + 1) * TicksPerDay
                   IN /\ reqs'[p].doc[i].isOverdue = (d >= 5)
                      /\ reqs'[p].doc[i].daysOverdue = IF d >= 5 THEN d ELSE 0]_vars

C26_Witness ==
    \E p \in Procs :
        /\ reqs[p].op = "pendingClaims"
        /\ \E i \in DOMAIN reqs[p].doc :
              /\ Len(claims[i].updates) = 1
              /\ claims[i].updates[1].date > claims[i].claimDate
              /\ reqs[p].doc[i].isOverdue
              /\ reqs[p].doc[i].daysOverdue = 6

\* ======================= Identity fields of a warranty ==================

MemberIds == {1, 2}

\* request bodies of the generic update that name an identity field
IdentityBodies ==
    {[memberId |-> m] : m \in MemberIds}
        \cup {[memberId |-> m, policyNumber |-> n] : m \in MemberIds, n \in PolicyNumberRange}
        \cup {("$set" :> [memberId |-> m]) : m \in MemberIds}

NextIdentity ==
    \/ \E body \in WorkflowBodies : CreateWarranty(FreshDevice(body))
    \/ \E wid \in WIds, body \in IdentityBodies : UpdateWarranty(wid, StripMemberId(body))
    \/ \E wid \in WIds, n \in 0..MaxSchedule, all \in BOOLEAN : PaymentUpdate(wid, n, all)
    \/ \E wid \in WIds : Approve(wid)
    \/ \E wid \in WIds : Reject(wid)
    \/ claims = <<>> /\ \E wid \in DOMAIN warranties, cid \in ClaimIdRange : Intake(wid, cid)
    \/ \E id \in CIds : Complete(id)

SpecIdentity == Init /\ [][NextIdentity]_vars

\* C27: the policyNumber of a stored warranty never changes after creation,
\* whatever body the generic update carries.
C27_PolicyNumberImmutable ==
    [][\A wid \in DOMAIN warranties :
          warranties'[wid].policyNumber = warranties[wid].policyNumber]_vars

\* C28: the memberId of a stored warranty never changes after creation: not by
\* a generic update whose body names a memberId, nor by any other operation.
C28_MemberIdImmutable ==
    [][\A wid \in DOMAIN warranties :
          warranties'[wid].memberId = warranties[wid].memberId]_vars

\* ======================= Concurrent Intake ==============================
\* POST /api/claims split at its awaits: the findOne of the id loop, the save
\* of the new claim, the write of the warranty's claimStatus.

\* variant: no unique index on claimId, an insert is never rejected
DuplicateKeyNever(cl, claimId) == FALSE

\* claimId: { type: String, unique: true }: the insert throws a duplicate-key
\* error when a stored claim already holds the id
DuplicateKey(cl, claimId) == \E i \in 1..Len(cl) : cl[i].claimId = claimId

\* while (!isUnique): the loop leaves with an id that findOne did not find
IntakeDraw(p, wid, cid) ==
    /\ reqs[p].pc = "idle"
    /\ Len(claims) + Cardinality({q \in Procs : reqs[q].pc = "intakeSave"}) < MaxClaims
    /\ ~ClaimIdTaken(cid)
    /\ reqs' = [reqs EXCEPT ![p] =
           [IdleReq EXCEPT !.pc = "intakeSave", !.op = "intake",
                           !.doc = [claimId |-> cid, warrantyId |-> wid, status |-> 0]]]
    /\ UNCHANGED <<warranties, nextWid, claims, events, resp, now>>

\* await newClaim.save(): a rejected insert goes to catch (err), status 400
IntakeSave(p) ==
    /\ reqs[p].pc = "intakeSave"
    /\ IF DuplicateKey(claims, reqs[p].doc.claimId)
       THEN /\ resp' = 400
            /\ reqs' = [reqs EXCEPT ![p].pc = "done", ![p].doc.status = 400]
            /\ UNCHANGED claims
       ELSE /\ claims' = Append(claims, NewClaim(reqs[p].doc.claimId, reqs[p].doc.warrantyId))
            /\ reqs' = [reqs EXCEPT ![p].pc = "intakeSync", ![p].id = Len(claims) + 1]
            /\ UNCHANGED resp
    /\ UNCHANGED <<warranties, nextWid, events, now>>

\* await Warranty.findByIdAndUpdate(warrantyId, {claimStatus: 'pending'}); 201
IntakeSync(p) ==
    /\ reqs[p].pc = "intakeSync"
    /\ warranties' = SetClaimStatus(warranties, reqs[p].doc.warrantyId, "pending")
    /\ resp' = 201
    /\ reqs' = [reqs EXCEPT ![p].pc = "done", ![p].doc.status = 201]
    /\ UNCHANGED <<nextWid, claims, events, now>>

NextIntake ==
    \/ warranties = <<>> /\ \E body \in WorkflowBodies : CreateWarranty(FreshDevice(body))
    \/ \E p \in Procs, wid \in IntakeWarrantyIds, cid \in ClaimIdRange : IntakeDraw(p, wid, cid)
    \/ \E p \in Procs : IntakeSave(p)
    \/ \E p \in Procs : IntakeSync(p)
    \/ \E id \in CIds : AddUpdate(id, 0, 0)
    \/ \E id \in CIds : Complete(id)
    \/ \E p \in Procs : Receive(p)

SpecIntake == Init /\ [][NextIntake]_vars

\* C29: no step leaves two stored claims with one claimId, also when concurrent
\* Intake requests drew the same id, and no step changes the claimId or the
\* warrantyId of a stored claim.
C29_ClaimIdUniqueAndFixed ==
    [][/\ \A i, j \in 1..Len(claims') :
              i # j => claims'[i].claimId # claims'[j].claimId
       /\ Len(claims') >= Len(claims)
       /\ \A i \in 1..Len(claims) :
              /\ claims'[i].claimId = claims[i].claimId
              /\ claims'[i].warrantyId = claims[i].warrantyId]_vars

\* two Intake requests drew the same id; one was stored and then updated, the
\* other was rejected by the index
C29_Witness ==
    \E p, q \in Procs :
        /\ p # q
        /\ reqs[p].op = "intake" /\ reqs[p].pc = "done" /\ reqs[p].doc.status = 201
        /\ reqs[q].op = "intake" /\ reqs[q].pc = "done" /\ reqs[q].doc.status = 400
        /\ reqs[p].doc.claimId = reqs[q].doc.claimId
        /\ claims[reqs[p].id].claimId = reqs[p].doc.claimId
        /\ claims[reqs[p].id].updates # <<>>

\* C30: an Intake request whose insert the unique index rejected is retried with
\* a fresh id, so every answered Intake request succeeded.
C30_RetryOnDuplicate ==
    \A p \in Procs :
        reqs[p].op = "intake" /\ reqs[p].pc = "done" => reqs[p].doc.status = 201

\* ======================= The id generation loop =========================
\* POST /api/claims with every iteration of while (!isUnique) a step of its own.

\* the request is accepted and enters the loop
IntakeStart(p, wid) ==
    /\ reqs[p].pc = "idle"
    /\ reqs' = [reqs EXCEPT ![p] =
           [IdleReq EXCEPT !.pc = "loop", !.op = "intake",
                           !.doc = [claimId |-> 0, warrantyId |-> wid, status |-> 0]]]
    /\ UNCHANGED <<warranties, nextWid, claims, events, resp, now>>

\* one iteration: a random id is assigned to claimId and looked up; the loop is
\* left only when findOne returns nothing, otherwise the next iteration follows
IntakeLoop(p, cid) ==
    /\ reqs[p].pc = "loop"
    /\ IF ClaimIdTaken(cid)
       THEN reqs' = [reqs EXCEPT ![p].doc.claimId = cid]
       ELSE reqs' = [reqs EXCEPT ![p].pc = "intakeSave", ![p].doc.claimId = cid]
    /\ UNCHANGED <<warranties, nextWid, claims, events, resp, now>>

NextLoop ==
    \/ \E p \in Procs : IntakeStart(p, 0)
    \/ \E p \in Procs, cid \in ClaimIdRange : IntakeLoop(p, cid)
    \/ \E p \in Procs : IntakeSave(p)
    \/ \E p \in Procs : IntakeSync(p)
    \/ \E p \in Procs : Receive(p)

SpecLoop == Init /\ [][NextLoop]_vars

\* every await of an accepted request returns, and while an id is free the
\* random draw eventually hits one
FairLoop ==
    \A p \in Procs :
        /\ WF_vars(\E cid \in ClaimIdRange : ~ClaimIdTaken(cid) /\ IntakeLoop(p, cid))
        /\ WF_vars(IntakeSave(p))
        /\ WF_vars(IntakeSync(p))

SpecLoopLive == SpecLoop /\ FairLoop

\* C31: every Intake request that entered the id loop is answered, with success
\* or an error, in every state of the store.
C31_IntakeTerminates ==
    \A p \in Procs : (reqs[p].pc = "loop") ~> (reqs[p].pc = "done")

\* ======================= Registry: natural keys and references ==========

NumDevices == 2

\* serial numbers and IMEIs a registration may name
Devices == 1..NumDevices

\* DELETE /api/warranties/:id: findByIdAndDelete, the claims are not touched
DeleteWarranty(wid) ==
    /\ IF wid \in DOMAIN warranties
       THEN /\ warranties' = [w \in DOMAIN warranties \ {wid} |-> warranties[w]]
            /\ resp' = 200
       ELSE /\ resp' = 404
            /\ UNCHANGED warranties
    /\ UNCHANGED <<nextWid, claims, events, now, reqs>>

NextRegistry ==
    \/ \E body \in WorkflowBodies, serial \in Devices, imei \in Devices :
            CreateWarranty(WithDevice(body, serial, imei))
    \/ \E wid \in WIds : DeleteWarranty(wid)
    \/ \E wid \in IntakeWarrantyIds, cid \in ClaimIdRange : Intake(wid, cid)
    \/ \E id \in CIds : Complete(id)

SpecRegistry == Init /\ [][NextRegistry]_vars

\* C32: no two stored warranties name the same device serial, and no two the
\* same device IMEI.
C32_DeviceKeysUnique ==
    \A w1, w2 \in DOMAIN warranties :
        w1 # w2 => /\ warranties[w1].serial # warranties[w2].serial
                   /\ warranties[w1].imei # warranties[w2].imei

\* C33: the warrantyId of every stored claim is the id of a stored warranty.
C33_ClaimRefersToWarranty ==
    \A i \in 1..Len(claims) : claims[i].warrantyId \in DOMAIN warranties

\* ======================= Requests to a missing claim ====================

SignatureBodies ==
    {[customerSignature |-> c, staffSignature |-> 1, managerSignature |-> 1] : c \in {0, 1}}

\* PUT /api/claims/:id/signatures: findByIdAndUpdate of the three signature fields
SaveSignatures(id, body) ==
    /\ IF id \in 1..Len(claims)
       THEN /\ claims' = [claims EXCEPT ![id].signatures = body]
            /\ resp' = 200
       ELSE /\ resp' = 404
            /\ UNCHANGED claims
    /\ UNCHANGED <<warranties, nextWid, events, now, reqs>>

\* One claim under observation, requests sent one at a time, the clock running.
NextHistory ==
    \/ AllReceived /\ claims = <<>> /\ \E cid \in ClaimIdRange : Intake(0, cid)
    \/ AllReceived /\ \E id \in CIds : AddUpdate(id, 0, 0)
    \/ AllReceived /\ \E id \in CIds : Complete(id)
    \/ AllReceived /\ \E id \in CIds, body \in SignatureBodies : SaveSignatures(id, body)
    \/ AllReceived /\ Tick
    \/ AllReceived /\ \E p \in Procs, claimId \in ClaimIdRange : Track(p, claimId)
    \/ \E p \in Procs : Receive(p)

SpecHistory == Init /\ [][NextHistory]_vars

\* C35: across every step the stored updates of a claim keep their former
\* entries as a prefix, unchanged and in the same order; the newest-first order
\* of the tracking response is not stored.
C35_UpdatesAppendOnly ==
    [][\A i \in 1..Len(claims) :
          /\ i <= Len(claims')
          /\ Len(claims'[i].updates) >= Len(claims[i].updates)
          /\ SubSeq(claims'[i].updates, 1, Len(claims[i].updates)) = claims[i].updates]_vars

\* a tracking response lists two entries newest first while the store holds
\* them oldest first
C35_Witness ==
    \E p \in Procs :
        /\ reqs[p].op = "track" /\ reqs[p].pc = "done"
        /\ Len(reqs[p].doc.updates) = 2
        /\ reqs[p].doc.updates[1].date > reqs[p].doc.updates[2].date
        /\ claims[reqs[p].id].updates = <<reqs[p].doc.updates[2], reqs[p].doc.updates[1]>>
        /\ claims[reqs[p].id].signatures.customerSignature = 1

\* ======================= Warranties without a device price ==============

\* registrations that carry devicePrice, only device.deviceValue, or neither
PriceBodies ==
    LET base == [memberId |-> 1, method |-> "Cash", schedule |-> <<>>,
                 usedCoverage |-> 0, installmentsPaid |-> 1]
    IN {base, base @@ [devicePrice |-> 10], base @@ [deviceValue |-> 90]}

NextPrice ==
    \/ AllReceived /\ warranties = <<>> /\ \E body \in PriceBodies : CreateWarranty(FreshDevice(body))
    \/ AllReceived /\ \E p \in Procs, wid \in WIds, updateData \in LimitUpdates :
                      UpdateWarrantyJSON(p, wid, updateData)
    \/ AllReceived /\ claims = <<>> /\ \E wid \in DOMAIN warranties, cid \in ClaimIdRange :
                                       Intake(wid, cid)
    \/ AllReceived /\ \E p \in Procs : GetWarranties(p)
    \/ AllReceived /\ \E p \in Procs, claimId \in ClaimIdRange : Track(p, claimId)
    \/ \E p \in Procs : Receive(p)

SpecPrice == Init /\ [][NextPrice]_vars

\* C36: for a warranty with neither devicePrice nor device.deviceValue every read
\* path reports maxLimit 0 and currentLimit 0: the serialised document, the
\* warranty aggregation and the public tracking view.
C36_MissingPriceGivesZeroLimits ==
    \A p \in Procs :
        /\ (reqs[p].op = "putWarranty"
               /\ reqs[p].doc.devicePrice = Null /\ reqs[p].doc.deviceValue = Null)
           => reqs[p].doc.maxLimit = 0 /\ reqs[p].doc.currentLimit = 0
        /\ reqs[p].op = "getWarranties"
           => \A wid \in DOMAIN reqs[p].doc :
                  (warranties[wid].devicePrice = Null /\ warranties[wid].deviceValue = Null)
                  => reqs[p].doc[wid].maxLimit = 0 /\ reqs[p].doc[wid].currentLimit = 0
        /\ (reqs[p].op = "track" /\ claims[reqs[p].id].warrantyId \in DOMAIN warranties)
           => LET w == warranties[claims[reqs[p].id].warrantyId]
              IN (w.devicePrice = Null /\ w.deviceValue = Null)
                 => reqs[p].doc.coverageLimit = 0

\* ======================= Failures of the claimStatus write ==============
\* Intake and Complete with the warranty write that follows the save of the
\* claim failing or not.  One warranty is registered.

NextStatusFaults ==
    \/ warranties = <<>> /\ \E body \in WorkflowBodies : CreateWarranty(FreshDevice(body))
    \/ \E wid \in DOMAIN warranties, cid \in ClaimIdRange, statusFails \in BOOLEAN :
            IntakeWith(wid, cid, statusFails)
    \/ \E id \in CIds, cost \in 0..MaxCost, ev \in EvidenceCounts : AddUpdate(id, cost, ev)
    \/ \E id \in CIds, statusFails \in BOOLEAN : CompleteWith(id, statusFails, FALSE)

SpecStatusFaults == Init /\ [][NextStatusFaults]_vars

\* C37: an Intake or a Complete that answers with an error has changed neither
\* the claims nor the warranties.
C37_ErrorMeansNoChange ==
    [][/\ \A wid \in WIds, cid \in ClaimIdRange, statusFails \in BOOLEAN :
            (IntakeWith(wid, cid, statusFails) /\ resp' >= 400)
            => claims' = claims /\ warranties' = warranties
       /\ \A id \in CIds, statusFails \in BOOLEAN :
            (CompleteWith(id, statusFails, FALSE) /\ resp' >= 400)
            => claims' = claims /\ warranties' = warranties]_vars

\* ======================= Status and pickup date =========================

\* C38: a stored claim has status device-received exactly when its pickupDate
\* is set, and no step takes a claim from device-received back to
\* awaiting-intake.
C38_ReceivedIffPickupDate ==
    /\ [](\A i \in 1..Len(claims) :
             claims[i].status = "device-received" <=> claims[i].pickupDate # <<>>)
    /\ [][\A i \in 1..Len(claims) :
             claims[i].status = "device-received" => claims'[i].status = "device-received"]_vars

\* one claim completed and updated afterwards, another still awaiting intake
C38_Witness ==
    /\ Len(claims) = 2
    /\ claims[1].status = "device-received" /\ claims[1].pickupDate # <<>>
    /\ Len(claims[1].updates) = 2 /\ claims[1].updates[2].cost > 0
    /\ claims[2].status = "awaiting-intake" /\ claims[2].pickupDate = <<>>
    /\ claims[2].updates # <<>>

\* ======================= Frame conditions of the claim transitions ======

\* C39: Add Progress Update leaves the claim's status and pickupDate and every
\* warranty's claimStatus and approvalStatus as they were; Complete leaves the
\* claim's totalCost and every warranty's usedCoverage as they were; neither
\* changes another claim or a warranty other than the claim's.
C39_FrameConditions ==
    [][/\ \A id \in CIds, cost \in Costs, ev \in EvidenceCounts :
            (id \in 1..Len(claims) /\ AddUpdate(id, cost, ev))
            => /\ claims'[id].status = claims[id].status
               /\ claims'[id].pickupDate = claims[id].pickupDate
               /\ \A j \in 1..Len(claims) : j # id => claims'[j] = claims[j]
               /\ DOMAIN warranties' = DOMAIN warranties
               /\ \A wid \in DOMAIN warranties :
                     /\ warranties'[wid].claimStatus = warranties[wid].claimStatus
                     /\ warranties'[wid].approvalStatus = warranties[wid].approvalStatus
                     /\ wid # claims[id].warrantyId => warranties'[wid] = warranties[wid]
       /\ \A id \in CIds :
            (id \in 1..Len(claims) /\ Complete(id))
            => /\ claims'[id].totalCost = claims[id].totalCost
               /\ \A j \in 1..Len(claims) : j # id => claims'[j] = claims[j]
               /\ DOMAIN warranties' = DOMAIN warranties
               /\ \A wid \in DOMAIN warranties :
                     /\ warranties'[wid].usedCoverage = warranties[wid].usedCoverage
                     /\ wid # claims[id].warrantyId => warranties'[wid] = warranties[wid]]_vars

\* two warranties with a claim each: one claim has a paid update and is
\* completed, the other claim and its warranty are untouched
C39_Witness ==
    /\ Len(claims) = 2
    /\ claims[1].warrantyId = 1 /\ claims[2].warrantyId = 2
    /\ DOMAIN warranties = {1, 2}
    /\ claims[1].totalCost > 0 /\ claims[1].status = "device-received"
    /\ warranties[1].usedCoverage = claims[1].totalCost
    /\ warranties[1].claimStatus = "normal"
    /\ claims[2].updates = <<>>
    /\ warranties[2].usedCoverage = 0 /\ warranties[2].claimStatus = "pending"

\* ======================= Installment payments ===========================

MaxInstallments == 4

\* payment.schedule of a registration: up to MaxInstallments entries, each
\* Pending or Paid
PaymentSchedules ==
    UNION {{[i \in 1..n |-> [installmentNo |-> i, status |-> st[i]]] :
               st \in [1..n -> {"Pending", "Paid"}]} : n \in 0..MaxInstallments}

\* registrations paid by installments; the device price is not validated
PaymentBodies ==
    {[memberId |-> 1, devicePrice |-> d, method |-> "Installment", schedule |-> s,
      usedCoverage |-> 0, installmentsPaid |-> 1] : d \in {-10, 10}, s \in PaymentSchedules}

NextPayment ==
    \/ warranties = <<>> /\ \E body \in PaymentBodies : CreateWarranty(FreshDevice(body))
    \/ \E wid \in WIds, n \in 0..MaxInstallments, all \in BOOLEAN : PaymentUpdate(wid, n, all)

SpecPayment == Init /\ [][NextPayment]_vars

\* C40: a payment update on an Installment warranty leaves every Paid schedule
\* entry Paid and lowers neither the stored installmentsPaid nor the derived
\* currentLimit; pay-all-remaining leaves every entry Paid and installmentsPaid
\* at min(3, schedule length); the single-installment path sets payment.status
\* to Paid only when every entry is Paid.
C40_PaymentsOnlyRaise ==
    [][\A wid \in DOMAIN warranties, n \in 0..MaxInstallments, all \in BOOLEAN :
          (warranties[wid].method = "Installment" /\ PaymentUpdate(wid, n, all))
          => LET w == warranties[wid]
                 v == warranties'[wid]
             IN /\ Len(v.schedule) = Len(w.schedule)
                /\ \A i \in 1..Len(w.schedule) :
                      w.schedule[i].status = "Paid" => v.schedule[i].status = "Paid"
                /\ v.installmentsPaid >= w.installmentsPaid
                /\ currentLimit(v) >= currentLimit(w)
                /\ all => /\ AllPaid(v.schedule)
                          /\ v.installmentsPaid = Min(3, Len(v.schedule))
                /\ (~all /\ n # 0 /\ w.paymentStatus # "Paid" /\ v.paymentStatus = "Paid")
                      => AllPaid(v.schedule)]_vars

====
